---- MODULE Spec2Model ----
(***************************************************************************)
(* conllx-view: the dependency graph builder (graph.rs), the treebank      *)
(* store and the stateful cursor over it (model.rs), driven by the         *)
(* producer thread and the key handlers of main.rs.                        *)
(*                                                                         *)
(* Text is modelled as a sequence of one-character strings, Option<T> as   *)
(* a sequence of length 0 (None) or 1 (Some), and petgraph's Graph as its  *)
(* two arenas: nodes (index = position - 1) and edges in creation order.   *)
(***************************************************************************)
EXTENDS Integers, Sequences, FiniteSets, TLC

(* ------------------------------ bounds --------------------------------- *)

\* Most graphs the store holds in the model (guards Push).
MaxLen == 3
\* Longest collection a cursor is constructed from (from_iter).
MaxInit == 1
\* Most callbacks registered with connect_update.
MaxCallbacks == 3
\* Longest sentence handed to the graph builder in SpecBuild.
MaxTokens == 2
\* Width of usize in the model: arithmetic wraps modulo 2^UsizeBits.
UsizeBits == 8

UsizeModulus == 2 ^ UsizeBits

(* ------------------------------ Option --------------------------------- *)

None == <<>>
Some(x) == <<x>>
IsSome(o) == Len(o) = 1
Unwrap(o) == o[1]

(* ------------------------- tokens and sentences ------------------------ *)

\* conllx::Token, the fields the viewer reads: the form, the head and its
\* relation, the projective head and its relation, and the feature keys.
Token(form, head, head_rel) ==
    [form |-> form, head |-> head, head_rel |-> head_rel,
     features |-> None, phead |-> None, phead_rel |-> None]

Forms == { <<"A">>, <<"A", "\"", "B">> }
Relations == { <<"n", "s", "u", "b", "j">>, <<"d", "o", "b", "j">> }

\* Heads range over absent, root (0), every token of the sentence and one
\* position past the longest sentence.
Heads == {None} \cup { Some(h) : h \in 0..(MaxTokens + 1) }
HeadRels == {None} \cup { Some(r) : r \in Relations }

TokenSet == { Token(f, h, r) : f \in Forms, h \in Heads, r \in HeadRels }

Sentences == UNION { [1..n -> TokenSet] : n \in 0..MaxTokens }

(* --------------------------- graph.rs: builder ------------------------- *)

EmptyGraph == [nodes |-> <<>>, edges |-> <<>>]

DependencyNode(token, offset) == [token |-> token, offset |-> offset]

add_node_prepend(g, weight) == [g EXCEPT !.nodes = <<weight>> \o @]

\* Graph::add_node: the new node takes the next index.
add_node(g, weight) == [g EXCEPT !.nodes = Append(@, weight)]

add_edge_reversed(g, a, b, weight) ==
    [g EXCEPT !.edges = Append(@, [source |-> b, target |-> a, weight |-> weight])]

\* Graph::add_edge(a, b, weight): edge a -> b, appended to the edge arena.
add_edge(g, a, b, weight) ==
    [g EXCEPT !.edges = Append(@, [source |-> a, target |-> b, weight |-> weight])]

Built(g) == [status |-> "ok", graph |-> g, panic |-> ""]
Panicked(msg) == [status |-> "panic", graph |-> EmptyGraph, panic |-> msg]
NotBuilt == [status |-> "none", graph |-> EmptyGraph, panic |-> ""]

\* graph.rs 23-32: one node per token, in sentence order, offset = position.
RECURSIVE AddNodes(_, _, _)
AddNodes(g, sentence, offset) ==
    IF offset = Len(sentence) THEN g
    ELSE AddNodes(add_node(g, DependencyNode(sentence[offset + 1], offset)),
                  sentence, offset + 1)

\* graph.rs 34-48: the edge loop.  nodes[k + 1] is the NodeIndex of token k.
RECURSIVE AddEdges(_, _, _)
AddEdges(g, nodes, i) ==
    IF i = Len(nodes) THEN Built(g)
    ELSE LET node_idx == nodes[i + 1]
             token == g.nodes[node_idx + 1].token
             head == token.head
             rel == token.head_rel
         IN  IF rel = None THEN Panicked("Dependency relation missing")
             ELSE IF head = None THEN Panicked("Token does not have a head")
             ELSE IF Unwrap(head) # 0
                  THEN IF Unwrap(head) - 1 >= Len(nodes)
                       THEN Panicked("index out of bounds")
                       ELSE AddEdges(add_edge(g, nodes[Unwrap(head)], nodes[i + 1], Unwrap(rel)),
                                     nodes, i + 1)
                  ELSE AddEdges(g, nodes, i + 1)

\* impl From<Sentence> for DependencyGraph.
From(sentence) ==
    LET g == AddNodes(EmptyGraph, sentence, 0)
        nodes == [k \in 1..Len(sentence) |-> k - 1]
    IN  AddEdges(g, nodes, 0)

(* --------------------------- text formatting --------------------------- *)

Digit(d) == <<"0", "1", "2", "3", "4", "5", "6", "7", "8", "9">>[d + 1]

\* Display of an unsigned integer ({} in format strings).
RECURSIVE Display(_)
Display(n) == IF n < 10 THEN <<Digit(n)>> ELSE Display(n \div 10) \o <<Digit(n % 10)>>

\* escape_str: s.replace('"', r#"\""#).
RECURSIVE escape_str(_)
escape_str(s) ==
    IF s = <<>> THEN <<>>
    ELSE (IF Head(s) = "\"" THEN <<"\\", "\"">> ELSE <<Head(s)>>) \o escape_str(Tail(s))

DotDigraph ==
    <<"d", "i", "g", "r", "a", "p", "h", " ", "d", "e", "p", "t", "r", "e", "e", " ",
      "{", "\n">>

DotGraphAttrs ==
    <<"g", "r", "a", "p", "h", " ", "[", "c", "h", "a", "r", "s", "e", "t", " ", "=",
      " ", "\"", "U", "T", "F", "-", "8", "\"", "]", "\n">>

DotNodeAttrs ==
    <<"n", "o", "d", "e", " ", "[", "s", "h", "a", "p", "e", "=", "p", "l", "a", "i",
      "n", "t", "e", "x", "t", ",", " ", "h", "e", "i", "g", "h", "t", "=", "0", ",",
      " ", "w", "i", "d", "t", "h", "=", "0", ",", " ", "f", "o", "n", "t", "s", "i",
      "z", "e", "=", "1", "2", ",", " ", "f", "o", "n", "t", "n", "a", "m", "e", "=",
      "\"", "H", "e", "l", "v", "e", "t", "i", "c", "a", "\"", "]", "\n">>

DotEdgeAttrs ==
    <<"e", "d", "g", "e", " ", "[", "c", "o", "l", "o", "r", "=", "\"", "#", "4", "b",
      "0", "0", "8", "2", "\"", ",", " ", "f", "o", "n", "t", "s", "i", "z", "e", "=",
      "\"", "8", "\"", ",", " ", "f", "o", "n", "t", "n", "a", "m", "e", "=", "\"",
      "C", "o", "u", "r", "i", "e", "r", " ", "N", "e", "w", "\"", "]", "\n">>

LabelOpen ==
    <<"[", "l", "a", "b", "e", "l", "=", "\"">>

LabelClose ==
    <<"\"", "]", ";", "\n">>

Arrow ==
    <<" ", "-", ">", " ">>

\* model.rs 153-160: one statement per node, in node-index order.
RECURSIVE model_dot_nodes(_, _)
model_dot_nodes(g, i) ==
    IF i = Len(g.nodes) THEN <<>>
    ELSE <<"n">> \o Display(i) \o LabelOpen \o escape_str(g.nodes[i + 1].token.form)
         \o LabelClose \o model_dot_nodes(g, i + 1)

\* model.rs 164-175: one statement per edge, in edge-index order.
RECURSIVE model_dot_edges(_, _)
model_dot_edges(g, e) ==
    IF e = Len(g.edges) THEN <<>>
    ELSE <<"n">> \o Display(g.edges[e + 1].source) \o Arrow \o <<"n">>
         \o Display(g.edges[e + 1].target) \o LabelOpen
         \o escape_str(g.edges[e + 1].weight) \o LabelClose
         \o model_dot_edges(g, e + 1)

\* model.rs graph_to_dot.
model_graph_to_dot(g) ==
    DotDigraph \o DotGraphAttrs \o DotNodeAttrs \o model_dot_nodes(g, 0)
    \o DotEdgeAttrs \o model_dot_edges(g, 0) \o <<"}">>

(* ----------------------- graph.rs: the formatters ---------------------- *)

\* graph.rs 144-149: the token carries a "mark" feature.
marked(token) ==
    IF token.features = None THEN FALSE ELSE "mark" \in Unwrap(token.features)

MarkedLabelClose ==
    <<"\"", ",", " ", "f", "o", "n", "t", "c", "o", "l", "o", "r", "=", "\"", "f", "i",
      "r", "e", "b", "r", "i", "c", "k", "3", "\"", "]", ";", "\n">>

\* graph.rs 143-166: one statement per node, in node-index order.
RECURSIVE dot_nodes(_, _)
dot_nodes(g, i) ==
    IF i = Len(g.nodes) THEN <<>>
    ELSE <<"n">> \o Display(i) \o LabelOpen \o escape_str(g.nodes[i + 1].token.form)
         \o (IF marked(g.nodes[i + 1].token) THEN MarkedLabelClose ELSE LabelClose)
         \o dot_nodes(g, i + 1)

\* graph.rs 171-180: the statement of edge e.
dot_edge(g, e) ==
    <<"n">> \o Display(g.edges[e + 1].source) \o Arrow \o <<"n">>
    \o Display(g.edges[e + 1].target) \o LabelOpen
    \o escape_str(g.edges[e + 1].weight) \o LabelClose

\* graph.rs 170-181: one statement per edge, in edge-index order.
RECURSIVE dot_edges(_, _)
dot_edges(g, e) ==
    IF e = Len(g.edges) THEN <<>> ELSE dot_edge(g, e) \o dot_edges(g, e + 1)

\* graph.rs graph_to_dot.
graph_to_dot(g) ==
    DotDigraph \o DotGraphAttrs \o DotNodeAttrs \o dot_nodes(g, 0)
    \o DotEdgeAttrs \o dot_edges(g, 0) \o <<"}">>

TikzPreamble ==
    <<"\\", "d", "o", "c", "u", "m", "e", "n", "t", "c", "l", "a", "s", "s", "{", "s",
      "t", "a", "n", "d", "a", "l", "o", "n", "e", "}", "\n", "\n", "\\", "u", "s",
      "e", "p", "a", "c", "k", "a", "g", "e", "{", "t", "i", "k", "z", "-", "d", "e",
      "p", "e", "n", "d", "e", "n", "c", "y", "}", "\n", "\n", "\\", "b", "e", "g",
      "i", "n", "{", "d", "o", "c", "u", "m", "e", "n", "t", "}", "\n", "\n", "\\",
      "b", "e", "g", "i", "n", "{", "d", "e", "p", "e", "n", "d", "e", "n", "c", "y",
      "}", "\n", "\\", "b", "e", "g", "i", "n", "{", "d", "e", "p", "t", "e", "x", "t",
      "}">>

TikzUnderline ==
    <<"\\", "u", "n", "d", "e", "r", "l", "i", "n", "e", "{">>

TikzSeparator ==
    <<" ", "\\", "&", " ">>

TikzDeptextEnd ==
    <<"\\", "\\", "\n", "\\", "e", "n", "d", "{", "d", "e", "p", "t", "e", "x", "t",
      "}", "\n">>

TikzDepedge ==
    <<"\\", "d", "e", "p", "e", "d", "g", "e", "{">>

TikzPostamble ==
    <<"\\", "e", "n", "d", "{", "d", "e", "p", "e", "n", "d", "e", "n", "c", "y", "}",
      "\n", "\n", "\\", "e", "n", "d", "{", "d", "o", "c", "u", "m", "e", "n", "t",
      "}">>

\* graph.rs 200-213: the deptext entry of node i.
tikz_entry(g, i) ==
    IF marked(g.nodes[i + 1].token)
    THEN TikzUnderline \o g.nodes[i + 1].token.form \o <<"}">>
    ELSE g.nodes[i + 1].token.form

\* graph.rs 197-214: the entries in node-index order, joined (Itertools::join).
RECURSIVE tikz_entries(_, _)
tikz_entries(g, i) ==
    IF i = Len(g.nodes) THEN <<>>
    ELSE (IF i = 0 THEN <<>> ELSE TikzSeparator) \o tikz_entry(g, i) \o tikz_entries(g, i + 1)

tikz_depedge_zero_based(g, e) ==
    TikzDepedge \o Display(g.edges[e + 1].source) \o <<"}", "{">>
    \o Display(g.edges[e + 1].target) \o <<"}", "{">>
    \o escape_str(g.edges[e + 1].weight) \o <<"}", "\n">>

\* graph.rs 222-228: the command of edge e, with 1-based node numbers.
tikz_depedge(g, e) ==
    TikzDepedge \o Display(g.edges[e + 1].source + 1) \o <<"}", "{">>
    \o Display(g.edges[e + 1].target + 1) \o <<"}", "{">>
    \o escape_str(g.edges[e + 1].weight) \o <<"}", "\n">>

\* graph.rs 218-229: one command per edge, in edge-index order.
RECURSIVE tikz_edges(_, _)
tikz_edges(g, e) ==
    IF e = Len(g.edges) THEN <<>> ELSE tikz_depedge(g, e) \o tikz_edges(g, e + 1)

\* graph.rs graph_to_tikz.
graph_to_tikz(g) ==
    TikzPreamble \o tikz_entries(g, 0) \o TikzDeptextEnd \o tikz_edges(g, 0)
    \o TikzPostamble

(* ------------------------------ the input ------------------------------ *)

\* The sentences the reader of the producer thread can yield.
Corpus ==
    { << Token(<<"a">>, Some(2), Some(<<"s">>)), Token(<<"b">>, Some(0), Some(<<"r">>)) >>,
      << Token(<<"c", "\"">>, Some(0), Some(<<"r">>)) >>,
      << Token(<<"d">>, Some(0), None) >> }

CorpusGraphs == { From(s).graph : s \in { c \in Corpus : From(c).status = "ok" } }

(* ------------------------------- state --------------------------------- *)

VARIABLES
    treebank,         \* TreebankModel.treebank: the store
    idx,              \* StatefulTreebankModel.idx
    callbacks,        \* the registry: callbacks[i] is the category callback i is registered for
    fired,            \* the categories dispatched during the last operation, in order
    ran,              \* ran[k]: the callbacks run for fired[k], in the order they ran
    last,             \* the last operation: name, idx/len/graph() before it, argument or result
    faulted,          \* the event-loop thread panicked
    overflow_checks,  \* build profile: TRUE = arithmetic overflow panics, FALSE = it wraps
    producer,         \* the producer thread: "running", "panicked" or "done"
    sentence,         \* SpecBuild: the sentence handed to the builder
    built,            \* SpecBuild: the builder's outcome
    formatted,        \* SpecFormat: the texts the formatters returned
    layer,            \* SpecLayer: the dependency layer asked for
    lock,             \* SpecLock: the Mutex: "free", the thread holding it, or "poisoned"
    pc,               \* SpecLock: where each thread is (at) in which operation (op)
    chan,             \* SpecNotify: the messages queued on each subscriber's channel
    idle,             \* SpecNotify: the idle handlers pending for each subscriber
    label,            \* SpecNotify: the numbers the index label shows, if set
    delivered,        \* SpecNotify: the subscribers that were sent the graph at index 0
    todo,             \* SpecNotify: the callbacks the producer's push has yet to run
    treebank_idx      \* SpecWidget: DependencyTreeWidget.treebank_idx

vars == <<treebank, idx, callbacks, fired, ran, last, faulted, overflow_checks,
          producer, sentence, built, formatted, layer, lock, pc,
          chan, idle, label, delivered, todo, treebank_idx>>

notify_vars == <<chan, idle, label, delivered, todo>>

cursor_vars == <<treebank, idx, callbacks, fired, ran, last, faulted, producer>>

ModelUpdate == {"Any", "TreeSelection", "TreebankLen"}

NotFormatted == [dot |-> None, tikz |-> None]

\* main.rs 93, 119: the producer thread and the thread of the event loop.
Threads == {"producer", "gui"}

\* The concatenation of a sequence of texts.
RECURSIVE Flatten(_)
Flatten(texts) ==
    IF texts = <<>> THEN <<>> ELSE Head(texts) \o Flatten(Tail(texts))

\* main.rs 205, 245, 166: the subscribers, in the order create_gui registers
\* them (134-137).
Subscribers == <<"tree", "sentence", "header">>

\* main.rs 160, 198, 239: channel(); nothing sent, nothing scheduled, the
\* label not yet set.
NotifyStart ==
    /\ chan = [s \in {"tree", "sentence", "header"} |-> <<>>]
    /\ idle = [s \in {"tree", "sentence", "header"} |-> 0]
    /\ label = None
    /\ delivered = {}
    /\ todo = <<>>

\* Neither thread has asked for the lock; the event loop has set up nothing.
PcStart ==
    [producer |-> [at |-> "out", op |-> "push"], gui |-> [at |-> "out", op |-> "start"]]

(* ------------------------- model.rs: the cursor ------------------------ *)

len == Len(treebank)

\* TreebankModel::get: None when out of range.
get(i) == IF i < Len(treebank) THEN Some(treebank[i + 1]) ELSE None

\* StatefulTreebankModel::graph.
graph == get(idx)

\* Which registrations an event of category update reaches.
Subscribed(registered, update) == registered = update \/ registered = "Any"

RECURSIVE CallbacksFrom(_, _, _)
CallbacksFrom(cbs, update, i) ==
    IF i > Len(cbs) THEN <<>>
    ELSE (IF Subscribed(cbs[i], update) THEN <<i>> ELSE <<>>)
         \o CallbacksFrom(cbs, update, i + 1)

RECURSIVE CallbacksReversed(_, _, _)
CallbacksReversed(cbs, update, i) ==
    IF i > Len(cbs) THEN <<>>
    ELSE CallbacksReversed(cbs, update, i + 1)
         \o (IF Subscribed(cbs[i], update) THEN <<i>> ELSE <<>>)

Callbacks_reversed(cbs, update) == CallbacksReversed(cbs, update, 1)

Callbacks_twice(cbs, update) == CallbacksFrom(cbs, update, 1) \o CallbacksFrom(cbs, update, 1)

Callbacks_every(cbs, update) == [i \in 1..Len(cbs) |-> i]

\* StatefulTreebankModel::callbacks: the callbacks an event runs, first
\* registered first, each called to completion before the next.
Callbacks(cbs, update) == CallbacksFrom(cbs, update, 1)

\* The dispatches of one operation, in order.
Fire(updates) ==
    /\ fired' = updates
    /\ ran' = [k \in 1..Len(updates) |-> Callbacks(callbacks, updates[k])]

NoEvent == fired' = <<>> /\ ran' = <<>>

\* What an operation was given or returned: kind is "ok", "err" (an Err
\* result) or "panic"; val is a sequence.
Ret(kind, val) == [kind |-> kind, val |-> val]

Record(op, ret) ==
    last' = [op |-> op, idx |-> idx, len |-> len, graph |-> graph, ret |-> ret]

set_idx_unchecked(i) ==
    /\ idx' = i
    /\ Fire(<<"TreeSelection">>)

\* StatefulTreebankModel::set_idx.
set_idx(i) ==
    /\ idx' = IF i < len THEN i ELSE idx
    /\ Fire(<<"TreeSelection">>)


\* StatefulTreebankModel::first.
first == set_idx(0) /\ UNCHANGED faulted

\* StatefulTreebankModel::next.  idx + 1 cannot reach 2^UsizeBits: idx < len
\* or idx = 0.
next == set_idx(idx + 1) /\ UNCHANGED faulted

previous_guarded ==
    IF idx = 0
    THEN UNCHANGED <<idx, faulted>> /\ NoEvent
    ELSE set_idx(idx - 1) /\ UNCHANGED faulted

\* StatefulTreebankModel::previous.  idx - 1 at idx = 0 overflows: a panic
\* with overflow checks, a wrap to the largest usize without.
previous ==
    IF idx = 0 /\ overflow_checks
    THEN faulted' = TRUE /\ UNCHANGED idx /\ NoEvent
    ELSE set_idx((idx - 1) % UsizeModulus) /\ UNCHANGED faulted

push_len_only(g) ==
    /\ treebank' = Append(treebank, g)
    /\ idx' = idx
    /\ Fire(<<"TreebankLen">>)

\* StatefulTreebankModel::push: append, announce the new length and, when
\* the store was empty, the selection that just became valid.
push(g) ==
    /\ treebank' = Append(treebank, g)
    /\ idx' = idx
    /\ Fire(IF len = 0 THEN <<"TreebankLen", "TreeSelection">> ELSE <<"TreebankLen">>)

\* TreebankModel::tokens(idx): &self.treebank[idx] panics out of range.
TreebankModel_tokens(i) ==
    IF i < len
    THEN Ret("ok", [k \in 1..Len(treebank[i + 1].nodes) |-> treebank[i + 1].nodes[k].token.form])
    ELSE Ret("panic", <<>>)

\* StatefulTreebankModel::tokens.
tokens == TreebankModel_tokens(idx)

\* DependencyTreeDot for StatefulTreebankModel: self.inner.treebank[self.idx].
dependency_tree_dot ==
    IF idx < len THEN Ret("ok", model_graph_to_dot(treebank[idx + 1])) ELSE Ret("panic", <<>>)

\* TreebankModel::svg(idx), the renderer answering (rendered) or failing.
svg(i, rendered) ==
    IF i < len
    THEN IF rendered THEN Ret("ok", model_graph_to_dot(treebank[i + 1])) ELSE Ret("err", <<>>)
    ELSE Ret("panic", <<>>)

\* StatefulTreebankModel::handle: a handle onto the rendering of the DOT text.
handle(rendered) == svg(idx, rendered)

(* -------------------------- main.rs: the exports ----------------------- *)

\* What the file system does to File::create and to the write.
IoOutcomes == {"ok", "create_failed", "write_failed"}

\* The result of an export: the error ("" if none), the file created (if
\* any) and the text written to it (if the write went through).
Saved(kind, error, file, content) == Ret(kind, <<error, file, content>>)

dot_filename_zero_based(i) == <<"s">> \o Display(i) \o <<".", "d", "o", "t">>

\* main.rs 313: format!("s{}.dot", treebank_model.idx() + 1).
dot_filename(i) == <<"s">> \o Display(i + 1) \o <<".", "d", "o", "t">>

\* main.rs 328: format!("s{}.tikz", treebank_model.idx() + 1).
tikz_filename(i) == <<"s">> \o Display(i + 1) \o <<".", "t", "i", "k", "z">>

save_dot_unchecked(io) ==
    LET filename == dot_filename(idx)
    IN IF io = "create_failed" THEN Saved("err", "Io", None, None)
       ELSE IF io = "write_failed" THEN Saved("err", "Io", Some(filename), None)
       ELSE Saved("ok", "", Some(filename),
                  Some(IF graph = None THEN <<>> ELSE graph_to_dot(Unwrap(graph))))

\* main.rs 307-320: save_dot.
save_dot(io) ==
    IF graph = None THEN Saved("err", "NoGraphSelected", None, None)
    ELSE LET filename == dot_filename(idx)
         IN IF io = "create_failed" THEN Saved("err", "Io", None, None)
            ELSE IF io = "write_failed" THEN Saved("err", "Io", Some(filename), None)
            ELSE Saved("ok", "", Some(filename), Some(graph_to_dot(Unwrap(graph))))

\* main.rs 322-335: save_tikz.
save_tikz(io) ==
    IF graph = None THEN Saved("err", "NoGraphSelected", None, None)
    ELSE LET filename == tikz_filename(idx)
         IN IF io = "create_failed" THEN Saved("err", "Io", None, None)
            ELSE IF io = "write_failed" THEN Saved("err", "Io", Some(filename), None)
            ELSE Saved("ok", "", Some(filename), Some(graph_to_tikz(Unwrap(graph))))

(* ------------------------------- actions ------------------------------- *)

build_vars == <<sentence, built, formatted, layer, lock, pc, notify_vars, treebank_idx>>

\* The process is alive: the event-loop thread has not panicked.
Alive == ~faulted

\* connect_update(update, callback).
ConnectUpdate(update) ==
    /\ Alive
    /\ Len(callbacks) < MaxCallbacks
    /\ callbacks' = Append(callbacks, update)
    /\ NoEvent
    /\ Record("connect_update", Ret("ok", <<update>>))
    /\ UNCHANGED <<treebank, idx, faulted, overflow_checks, producer, build_vars>>

\* main.rs 93-104: the producer thread turns the next sentence into a graph
\* (a panic in the builder ends the thread before the lock is taken) and
\* pushes it under the lock.
Push(sent) ==
    /\ Alive
    /\ producer = "running"
    /\ len < MaxLen
    /\ LET r == From(sent)
       IN  IF r.status = "ok"
           THEN /\ push(r.graph)
                /\ Record("push", Ret("ok", <<r.graph>>))
                /\ UNCHANGED producer
           ELSE /\ producer' = "panicked"
                /\ NoEvent
                /\ Record("build", Ret("panic", <<>>))
                /\ UNCHANGED <<treebank, idx>>
    /\ UNCHANGED <<callbacks, faulted, overflow_checks, build_vars>>

\* main.rs 101-104: the reader is exhausted, the thread ends.
ProducerDone ==
    /\ Alive
    /\ producer = "running"
    /\ producer' = "done"
    /\ NoEvent
    /\ Record("eof", Ret("ok", <<>>))
    /\ UNCHANGED <<treebank, idx, callbacks, faulted, overflow_checks, build_vars>>

\* main.rs 148: treebank_model.lock().unwrap().first().
First ==
    /\ Alive
    /\ first
    /\ Record("first", Ret("ok", <<>>))
    /\ UNCHANGED <<treebank, callbacks, overflow_checks, producer, build_vars>>

\* main.rs 278-280: NEXT_KEY.
Next_ ==
    /\ Alive
    /\ next
    /\ Record("next", Ret("ok", <<>>))
    /\ UNCHANGED <<treebank, callbacks, overflow_checks, producer, build_vars>>

\* main.rs 281-283: PREVIOUS_KEY.
Previous ==
    /\ Alive
    /\ previous
    /\ Record("previous", Ret(IF faulted' THEN "panic" ELSE "ok", <<>>))
    /\ UNCHANGED <<treebank, callbacks, overflow_checks, producer, build_vars>>

\* A read of the cursor: ret is what it returns; a panic ends the process.
Read(op, ret) ==
    /\ Alive
    /\ Record(op, ret)
    /\ faulted' = (ret.kind = "panic")
    /\ NoEvent
    /\ UNCHANGED <<treebank, idx, callbacks, overflow_checks, producer, build_vars>>

ReadGraph == Read("graph", Ret("ok", graph))

ReadTokens == Read("tokens", tokens)

ReadDot == Read("dependency_tree_dot", dependency_tree_dot)

ReadHandle == \E rendered \in BOOLEAN : Read("handle", handle(rendered))

\* main.rs 274-277: DOT_KEY. The lock guard lives until the match ends, so
\* the whole of save_dot runs under the lock; the result is printed.
SaveDot == \E io \in IoOutcomes : Read("save_dot", save_dot(io))

\* main.rs 287-290: TIKZ_KEY.
SaveTikz == \E io \in IoOutcomes : Read("save_tikz", save_tikz(io))

(* ---------------------------- specifications --------------------------- *)

RECURSIVE SeqsUpTo(_, _)
SeqsUpTo(S, n) == IF n = 0 THEN {<<>>} ELSE SeqsUpTo(S, n - 1) \cup [1..n -> S]

\* StatefulTreebankModel::new() and from_iter(collection).
Init ==
    /\ treebank \in SeqsUpTo(CorpusGraphs, MaxInit)
    /\ idx = 0
    /\ callbacks = <<>>
    /\ fired = <<>>
    /\ ran = <<>>
    /\ last = [op |-> "new", idx |-> 0, len |-> Len(treebank),
                graph |-> IF treebank = <<>> THEN None ELSE Some(treebank[1]),
                ret |-> Ret("ok", <<>>)]
    /\ faulted = FALSE
    /\ overflow_checks \in BOOLEAN
    /\ producer = "running"
    /\ sentence = <<>>
    /\ built = NotBuilt
    /\ formatted = NotFormatted
    /\ layer = "Surface"
    /\ lock = "free"
    /\ pc = PcStart
    /\ NotifyStart
    /\ treebank_idx = 0

Next ==
    \/ \E update \in ModelUpdate : ConnectUpdate(update)
    \/ \E sent \in Corpus : Push(sent)
    \/ ProducerDone
    \/ First
    \/ Next_
    \/ Previous
    \/ ReadGraph
    \/ ReadTokens
    \/ ReadDot
    \/ ReadHandle

Spec == Init /\ [][Next]_vars

\* main.rs 134-137: the registrations create_gui makes before the window is
\* shown: the tree widget, the sentence widget, the header bar.
GuiCallbacks == <<"TreeSelection", "TreeSelection", "Any">>

\* The running viewer: the producer pushes while the keys move the cursor
\* and export the selected graph.
InitExport ==
    /\ treebank \in SeqsUpTo(CorpusGraphs, MaxInit)
    /\ idx = 0
    /\ callbacks = GuiCallbacks
    /\ fired = <<>>
    /\ ran = <<>>
    /\ last = [op |-> "new", idx |-> 0, len |-> Len(treebank),
                graph |-> IF treebank = <<>> THEN None ELSE Some(treebank[1]),
                ret |-> Ret("ok", <<>>)]
    /\ faulted = FALSE
    /\ overflow_checks \in BOOLEAN
    /\ producer = "running"
    /\ sentence = <<>>
    /\ built = NotBuilt
    /\ formatted = NotFormatted
    /\ layer = "Surface"
    /\ lock = "free"
    /\ pc = PcStart
    /\ NotifyStart
    /\ treebank_idx = 0

NextExport ==
    \/ \E sent \in Corpus : Push(sent)
    \/ ProducerDone
    \/ First
    \/ Next_
    \/ Previous
    \/ SaveDot
    \/ SaveTikz

SpecExport == InitExport /\ [][NextExport]_vars

(* ----------------------- the threads and the lock ---------------------- *)

\* main.rs 273-290: the keys that reach the cursor.
KeyOps == {"next", "previous", "save_dot", "save_tikz"}

\* main.rs 134-148 and 271-304: what the event-loop thread asks for after
\* the operation done: create_gui's four locked statements in order, then
\* whatever key is pressed.
NextOps(done) ==
    CASE done = "start" -> {"connect_tree"}
      [] done = "connect_tree" -> {"connect_sentence"}
      [] done = "connect_sentence" -> {"connect_header"}
      [] done = "connect_header" -> {"first"}
      [] OTHER -> KeyOps

\* main.rs 205, 245, 166: the category each setup step registers for.
SetupCategory(op) ==
    CASE op = "connect_tree" -> "TreeSelection"
      [] op = "connect_sentence" -> "TreeSelection"
      [] op = "connect_header" -> "Any"

At(t, at) == [pc EXCEPT ![t].at = at]

can_lock_unguarded(t) == TRUE

\* Mutex::lock: the caller gets the lock once no thread holds it.
can_lock(t) == lock = "free"

InitLock ==
    /\ treebank = <<>>
    /\ idx = 0
    /\ callbacks = <<>>
    /\ fired = <<>>
    /\ ran = <<>>
    /\ last = [op |-> "new", idx |-> 0, len |-> 0, graph |-> None, ret |-> Ret("ok", <<>>)]
    /\ faulted = FALSE
    /\ overflow_checks \in BOOLEAN
    /\ producer = "running"
    /\ sentence = <<>>
    /\ built = NotBuilt
    /\ formatted = NotFormatted
    /\ layer = "Surface"
    /\ lock = "free"
    /\ pc = PcStart
    /\ NotifyStart
    /\ treebank_idx = 0

\* main.rs 96-99: the producer builds the next graph, outside the lock; a
\* panic in the builder ends the thread.
ProducerBuild(sent) ==
    /\ Alive
    /\ producer = "running"
    /\ pc["producer"].at = "out"
    /\ len < MaxLen
    /\ sentence' = sent
    /\ built' = From(sent)
    /\ IF built'.status = "ok"
       THEN pc' = At("producer", "want") /\ UNCHANGED producer
       ELSE pc' = At("producer", "panicked") /\ producer' = "panicked"
    /\ UNCHANGED <<treebank, idx, callbacks, fired, ran, last, faulted,
                   overflow_checks, formatted, layer, treebank_idx, notify_vars, lock>>

\* main.rs 101-104: the reader is exhausted, the thread ends.
ProducerEof ==
    /\ Alive
    /\ producer = "running"
    /\ pc["producer"].at = "out"
    /\ producer' = "done"
    /\ pc' = At("producer", "done")
    /\ UNCHANGED <<treebank, idx, callbacks, fired, ran, last, faulted,
                   overflow_checks, sentence, built, formatted, layer, treebank_idx, notify_vars, lock>>

\* main.rs 134-148, 271-290: the event-loop thread reaches its next locked
\* statement.
GuiRequest(op) ==
    /\ Alive
    /\ pc["gui"].at = "out"
    /\ op \in NextOps(pc["gui"].op)
    /\ pc' = [pc EXCEPT !["gui"] = [at |-> "want", op |-> op]]
    /\ UNCHANGED <<cursor_vars, overflow_checks, sentence, built, formatted, layer, treebank_idx, notify_vars, lock>>

\* treebank_model.lock(): main.rs 103, 134, 136, 137, 148, 274, 279, 282, 287.
Acquire(t) ==
    /\ Alive
    /\ pc[t].at = "want"
    /\ can_lock(t)
    /\ lock' = t
    /\ pc' = At(t, "locked")
    /\ UNCHANGED <<cursor_vars, overflow_checks, sentence, built, formatted, layer, treebank_idx, notify_vars>>

\* lock().unwrap() on a lock a panicking thread held: main.rs 103. It
\* happens only if the panic in the event loop did not end the process.
ProducerPoisoned ==
    /\ pc["producer"].at = "want"
    /\ lock = "poisoned"
    /\ producer' = "panicked"
    /\ pc' = At("producer", "panicked")
    /\ UNCHANGED <<treebank, idx, callbacks, fired, ran, last, faulted,
                   overflow_checks, sentence, built, formatted, layer, treebank_idx, notify_vars, lock>>

\* main.rs 103: push(graph) under the lock.
ProducerPush ==
    /\ Alive
    /\ pc["producer"].at = "locked"
    /\ push(built.graph)
    /\ Record("push", Ret("ok", <<built.graph>>))
    /\ pc' = At("producer", "unlock")
    /\ UNCHANGED <<callbacks, faulted, overflow_checks, producer, sentence, built,
                   formatted, layer, treebank_idx, notify_vars, lock>>

\* main.rs 134, 136, 137: the three setup calls, each under its own lock.
GuiConnect ==
    /\ Alive
    /\ pc["gui"].at = "locked"
    /\ pc["gui"].op \in {"connect_tree", "connect_sentence", "connect_header"}
    /\ callbacks' = Append(callbacks, SetupCategory(pc["gui"].op))
    /\ NoEvent
    /\ Record(pc["gui"].op, Ret("ok", <<SetupCategory(pc["gui"].op)>>))
    /\ pc' = At("gui", "unlock")
    /\ UNCHANGED <<treebank, idx, faulted, overflow_checks, producer, sentence, built,
                   formatted, layer, treebank_idx, notify_vars, lock>>

\* main.rs 148: first() under the lock.
GuiFirst ==
    /\ Alive
    /\ pc["gui"].at = "locked"
    /\ pc["gui"].op = "first"
    /\ first
    /\ Record("first", Ret("ok", <<>>))
    /\ pc' = At("gui", "unlock")
    /\ UNCHANGED <<treebank, callbacks, overflow_checks, producer, sentence, built,
                   formatted, layer, treebank_idx, notify_vars, lock>>

\* main.rs 278-280: next() under the lock.
GuiNext ==
    /\ Alive
    /\ pc["gui"].at = "locked"
    /\ pc["gui"].op = "next"
    /\ next
    /\ Record("next", Ret("ok", <<>>))
    /\ pc' = At("gui", "unlock")
    /\ UNCHANGED <<treebank, callbacks, overflow_checks, producer, sentence, built,
                   formatted, layer, treebank_idx, notify_vars, lock>>

\* main.rs 281-283: previous() under the lock. A panic unwinds through the
\* guard, which poisons the lock.
GuiPrevious ==
    /\ Alive
    /\ pc["gui"].at = "locked"
    /\ pc["gui"].op = "previous"
    /\ previous
    /\ Record("previous", Ret(IF faulted' THEN "panic" ELSE "ok", <<>>))
    /\ IF faulted'
       THEN pc' = At("gui", "panicked") /\ lock' = "poisoned"
       ELSE pc' = At("gui", "unlock") /\ UNCHANGED lock
    /\ UNCHANGED <<treebank, callbacks, overflow_checks, producer, sentence, built,
                   formatted, layer, treebank_idx, notify_vars>>

\* main.rs 274-277, 287-290: save_dot / save_tikz under the lock.
GuiSave ==
    /\ Alive
    /\ pc["gui"].at = "locked"
    /\ pc["gui"].op \in {"save_dot", "save_tikz"}
    /\ \E io \in IoOutcomes :
           Record(pc["gui"].op,
                  IF pc["gui"].op = "save_dot" THEN save_dot(io) ELSE save_tikz(io))
    /\ NoEvent
    /\ pc' = At("gui", "unlock")
    /\ UNCHANGED <<treebank, idx, callbacks, faulted, overflow_checks, producer,
                   sentence, built, formatted, layer, treebank_idx, notify_vars, lock>>

\* The guard is dropped at the end of the statement.
Release(t) ==
    /\ Alive
    /\ pc[t].at = "unlock"
    /\ lock' = "free"
    /\ pc' = At(t, "out")
    /\ UNCHANGED <<cursor_vars, overflow_checks, sentence, built, formatted, layer, treebank_idx, notify_vars>>

NextLock ==
    \/ \E sent \in Corpus : ProducerBuild(sent)
    \/ ProducerEof
    \/ \E op \in KeyOps \cup {"connect_tree", "connect_sentence", "connect_header", "first"} :
           GuiRequest(op)
    \/ \E t \in Threads : Acquire(t)
    \/ ProducerPoisoned
    \/ ProducerPush
    \/ GuiConnect
    \/ GuiFirst
    \/ GuiNext
    \/ GuiPrevious
    \/ GuiSave
    \/ \E t \in Threads : Release(t)

SpecLock == InitLock /\ [][NextLock]_vars

(* ------------------------ widgets.rs: the widgets ---------------------- *)

\* widgets.rs 44-53 (DependencyTreeWidget::next; SentenceWidget::next,
\* 178-189, has the same test). len() - 1 on the empty store overflows: a
\* panic with overflow checks, the largest usize without.
widget_next ==
    IF len = 0 /\ overflow_checks
    THEN faulted' = TRUE /\ UNCHANGED treebank_idx
    ELSE IF treebank_idx = (len - 1) % UsizeModulus
         THEN UNCHANGED <<treebank_idx, faulted>>
         ELSE treebank_idx' = treebank_idx + 1 /\ UNCHANGED faulted

\* widgets.rs 55-64 (DependencyTreeWidget::previous; SentenceWidget::previous,
\* 191-202).
widget_previous ==
    IF treebank_idx = 0
    THEN UNCHANGED <<treebank_idx, faulted>>
    ELSE treebank_idx' = treebank_idx - 1 /\ UNCHANGED faulted

\* The widget's store is fixed when the widget is made (widgets.rs 27-33).
InitWidget ==
    /\ treebank \in SeqsUpTo(CorpusGraphs, MaxLen)
    /\ idx = 0
    /\ callbacks = <<>>
    /\ fired = <<>>
    /\ ran = <<>>
    /\ last = [op |-> "new", idx |-> 0, len |-> Len(treebank), graph |-> None,
                ret |-> Ret("ok", <<>>)]
    /\ faulted = FALSE
    /\ overflow_checks \in BOOLEAN
    /\ producer = "running"
    /\ sentence = <<>>
    /\ built = NotBuilt
    /\ formatted = NotFormatted
    /\ layer = "Surface"
    /\ lock = "free"
    /\ pc = PcStart
    /\ NotifyStart
    /\ treebank_idx = 0

\* What the widget did last: the operation, treebank_idx and len before it.
WidgetRecord(op, ret) ==
    last' = [op |-> op, idx |-> treebank_idx, len |-> len, graph |-> None, ret |-> ret]

WidgetNext ==
    /\ Alive
    /\ widget_next
    /\ WidgetRecord("widget_next", Ret(IF faulted' THEN "panic" ELSE "ok", <<>>))
    /\ UNCHANGED <<treebank, idx, callbacks, fired, ran, producer, overflow_checks,
                   sentence, built, formatted, layer, lock, pc, notify_vars>>

WidgetPrevious ==
    /\ Alive
    /\ widget_previous
    /\ WidgetRecord("widget_previous", Ret("ok", <<>>))
    /\ UNCHANGED <<treebank, idx, callbacks, fired, ran, producer, overflow_checks,
                   sentence, built, formatted, layer, lock, pc, notify_vars>>

\* widgets.rs 71-75: the draw callback consults the store:
\* handle(treebank_idx).expect(..) panics on an index out of range
\* (model.rs 115) and on a rendering error.
WidgetDraw ==
    /\ Alive
    /\ \E rendered \in BOOLEAN :
           /\ faulted' = (svg(treebank_idx, rendered).kind # "ok")
           /\ WidgetRecord("draw", Ret(svg(treebank_idx, rendered).kind, <<>>))
    /\ UNCHANGED <<treebank, idx, callbacks, fired, ran, producer, overflow_checks,
                   sentence, built, formatted, layer, lock, pc, notify_vars, treebank_idx>>

NextWidget ==
    \/ WidgetNext
    \/ WidgetPrevious
    \/ WidgetDraw

SpecWidget == InitWidget /\ [][NextWidget]_vars

(* ------------------- the callbacks and the idle handlers --------------- *)

MaxPending == 1

\* No subscriber has MaxPending idle handlers waiting.
RoomToNotify == \A s \in {"tree", "sentence", "header"} : idle[s] < MaxPending

\* The sentences the reader may yield after n have been pushed: the corpus
\* read in a fixed order (its two well-formed sentences in turn), or the
\* sentence the builder rejects.
Input(n) ==
    { IF n % 2 = 0
      THEN << Token(<<"a">>, Some(2), Some(<<"s">>)), Token(<<"b">>, Some(0), Some(<<"r">>)) >>
      ELSE << Token(<<"c", "\"">>, Some(0), Some(<<"r">>)) >>,
      << Token(<<"d">>, Some(0), None) >> }

\* The subscribers whose callbacks the dispatches rs ran, in the order run.
RunsIn(rs) ==
    Flatten([k \in 1..Len(rs) |-> [j \in 1..Len(rs[k]) |-> Subscribers[rs[k][j]]]])

\* main.rs 167, 206-207, 246-247: what the callback of subscriber s sends
\* when the cursor is at i over the store tb: the header (idx, len), the others
\* a clone of graph(), or nothing when there is no graph (ok_or!(.., return)).
message(s, i, tb) ==
    IF s = "header" THEN Some(<<i, Len(tb)>>)
    ELSE IF i < Len(tb) THEN Some(tb[i + 1]) ELSE None

\* main.rs 167, 207, 247: tx.send(..).
send(ch, s, i, tb) ==
    IF message(s, i, tb) = None THEN ch
    ELSE [ch EXCEPT ![s] = Append(@, Unwrap(message(s, i, tb)))]

schedule_twice(pending, s, i, tb) ==
    IF message(s, i, tb) = None THEN pending ELSE [pending EXCEPT ![s] = @ + 2]

\* main.rs 169, 209, 249: glib::idle_add(..), reached only after a send.
schedule(pending, s, i, tb) ==
    IF message(s, i, tb) = None THEN pending ELSE [pending EXCEPT ![s] = @ + 1]

\* The tree and sentence subscribers that have been sent the graph at index 0.
sent_first(d, s, i, tb) ==
    IF s # "header" /\ i = 0 /\ message(s, i, tb) # None THEN d \cup {s} ELSE d

RECURSIVE SendAll(_, _, _, _)
SendAll(ch, runs, i, tb) ==
    IF runs = <<>> THEN ch ELSE SendAll(send(ch, Head(runs), i, tb), Tail(runs), i, tb)

RECURSIVE ScheduleAll(_, _, _, _)
ScheduleAll(pending, runs, i, tb) ==
    IF runs = <<>> THEN pending
    ELSE ScheduleAll(schedule(pending, Head(runs), i, tb), Tail(runs), i, tb)

RECURSIVE SentFirstAll(_, _, _, _)
SentFirstAll(d, runs, i, tb) ==
    IF runs = <<>> THEN d
    ELSE SentFirstAll(sent_first(d, Head(runs), i, tb), Tail(runs), i, tb)

\* The callbacks of an operation of the event-loop thread: they run on the
\* thread that also runs the idle handlers, so no handler runs in between.
GuiNotify ==
    /\ chan' = SendAll(chan, RunsIn(ran'), idx', treebank)
    /\ idle' = ScheduleAll(idle, RunsIn(ran'), idx', treebank)
    /\ delivered' = SentFirstAll(delivered, RunsIn(ran'), idx', treebank)
    /\ UNCHANGED <<label, todo>>

Done(op) == [pc EXCEPT !["gui"].op = op]

\* The event-loop thread is in the main loop: create_gui has returned
\* (main.rs 148-149) and no handler of its own is running.
InMainLoop == pc["gui"].op \in {"first", "next", "previous"}

\* main.rs 93-104: the producer builds the next graph (a panic in the
\* builder ends the thread), takes the lock and pushes; the callbacks of the
\* push are still to run.
NotifyPush(sent) ==
    /\ Alive
    /\ producer = "running"
    /\ pc["producer"].at = "out"
    /\ lock = "free"
    /\ len < MaxLen
    /\ LET r == From(sent)
       IN  IF r.status = "ok"
           THEN /\ push(r.graph)
                /\ todo' = RunsIn(ran')
                /\ IF todo' = <<>>
                   THEN UNCHANGED <<lock, pc>>
                   ELSE lock' = "producer" /\ pc' = At("producer", "send")
                /\ UNCHANGED producer
           ELSE /\ producer' = "panicked"
                /\ pc' = At("producer", "panicked")
                /\ NoEvent
                /\ UNCHANGED <<treebank, idx, lock, todo>>
    /\ UNCHANGED <<callbacks, last, faulted, overflow_checks, sentence, built,
                   formatted, layer, treebank_idx, chan, idle, label, delivered>>

\* main.rs 167, 206-207, 246-247: the next callback of the push sends its
\* message, or returns when there is no graph to send.
NotifySend ==
    /\ Alive
    /\ pc["producer"].at = "send"
    /\ chan' = send(chan, Head(todo), idx, treebank)
    /\ delivered' = sent_first(delivered, Head(todo), idx, treebank)
    /\ IF message(Head(todo), idx, treebank) # None
       THEN pc' = At("producer", "schedule") /\ UNCHANGED <<todo, lock>>
       ELSE /\ todo' = Tail(todo)
            /\ IF todo' = <<>>
               THEN lock' = "free" /\ pc' = At("producer", "out")
               ELSE UNCHANGED <<lock, pc>>
    /\ UNCHANGED <<cursor_vars, overflow_checks, sentence, built, formatted, layer, treebank_idx,
                   idle, label>>

\* main.rs 169, 209, 249: the callback schedules its idle handler and
\* returns; after the last callback the guard is dropped (103).
NotifySchedule ==
    /\ Alive
    /\ pc["producer"].at = "schedule"
    /\ idle' = schedule(idle, Head(todo), idx, treebank)
    /\ todo' = Tail(todo)
    /\ IF todo' = <<>>
       THEN lock' = "free" /\ pc' = At("producer", "out")
       ELSE lock' = lock /\ pc' = At("producer", "send")
    /\ UNCHANGED <<cursor_vars, overflow_checks, sentence, built, formatted, layer, treebank_idx,
                   chan, label, delivered>>

\* main.rs 101-104: the reader is exhausted, the thread ends.
NotifyEof ==
    /\ Alive
    /\ producer = "running"
    /\ pc["producer"].at = "out"
    /\ producer' = "done"
    /\ pc' = At("producer", "done")
    /\ UNCHANGED <<treebank, idx, callbacks, fired, ran, last, faulted,
                   overflow_checks, sentence, built, formatted, layer, treebank_idx, lock, notify_vars>>

\* main.rs 134, 136, 137: the next setup call of create_gui, under the lock.
NotifyConnect ==
    /\ Alive
    /\ lock = "free"
    /\ pc["gui"].op \in {"start", "connect_tree", "connect_sentence"}
    /\ \E op \in NextOps(pc["gui"].op) :
           /\ callbacks' = Append(callbacks, SetupCategory(op))
           /\ pc' = Done(op)
    /\ NoEvent
    /\ UNCHANGED <<treebank, idx, last, faulted, overflow_checks, producer, sentence,
                   built, formatted, layer, treebank_idx, lock, notify_vars>>

\* main.rs 148: first() under the lock, with its callbacks.
NotifyFirst ==
    /\ Alive
    /\ lock = "free"
    /\ pc["gui"].op = "connect_header"
    /\ first
    /\ GuiNotify
    /\ pc' = Done("first")
    /\ UNCHANGED <<treebank, callbacks, last, overflow_checks, producer, sentence,
                   built, formatted, layer, treebank_idx, lock>>

\* main.rs 278-280: NEXT_KEY.
NotifyNext ==
    /\ Alive
    /\ lock = "free"
    /\ InMainLoop
    /\ RoomToNotify
    /\ next
    /\ GuiNotify
    /\ pc' = Done("next")
    /\ UNCHANGED <<treebank, callbacks, last, overflow_checks, producer, sentence,
                   built, formatted, layer, treebank_idx, lock>>

\* main.rs 281-283: PREVIOUS_KEY.
NotifyPrevious ==
    /\ Alive
    /\ lock = "free"
    /\ InMainLoop
    /\ RoomToNotify
    /\ previous
    /\ GuiNotify
    /\ pc' = Done("previous")
    /\ UNCHANGED <<treebank, callbacks, last, overflow_checks, producer, sentence,
                   built, formatted, layer, treebank_idx, lock>>

\* Receiver::try_recv on a channel that holds a message: the oldest one.
try_recv(queue) == Head(queue)

\* main.rs 169-179, 209-223, 249-260: the main loop runs a pending idle
\* handler once: it takes the oldest message of its channel, if there is
\* one; the header's handler shows it in the label as index + 1 and len.
RunIdle(s) ==
    /\ Alive
    /\ InMainLoop
    /\ idle[s] > 0
    /\ idle' = [idle EXCEPT ![s] = @ - 1]
    /\ IF chan[s] = <<>>
       THEN UNCHANGED <<chan, label>>
       ELSE /\ chan' = [chan EXCEPT ![s] = Tail(@)]
            /\ IF s = "header"
               THEN label' = Some(<<try_recv(chan[s])[1] + 1, try_recv(chan[s])[2]>>)
               ELSE UNCHANGED label
    /\ UNCHANGED <<cursor_vars, overflow_checks, sentence, built, formatted, layer, treebank_idx,
                   lock, pc, delivered, todo>>

NextNotify ==
    \/ \E sent \in Input(len) : NotifyPush(sent)
    \/ NotifySend
    \/ NotifySchedule
    \/ NotifyEof
    \/ NotifyConnect
    \/ NotifyFirst
    \/ NotifyNext
    \/ NotifyPrevious
    \/ \E s \in {"tree", "sentence", "header"} : RunIdle(s)

SpecNotify == InitLock /\ [][NextNotify]_vars

\* Both threads keep running: the producer finishes the callbacks of a push
\* it has begun, and create_gui runs to its end. Key presses are not owed.
SpecNotifyFair ==
    /\ SpecNotify
    /\ WF_vars(NotifySend \/ NotifySchedule)
    /\ WF_vars(NotifyConnect \/ NotifyFirst)

\* The builder on its own: any sentence within the bounds, built once.
InitBuild ==
    /\ treebank = <<>>
    /\ idx = 0
    /\ callbacks = <<>>
    /\ fired = <<>>
    /\ ran = <<>>
    /\ last = [op |-> "new", idx |-> 0, len |-> 0, graph |-> None, ret |-> Ret("ok", <<>>)]
    /\ faulted = FALSE
    /\ overflow_checks \in BOOLEAN
    /\ producer = "running"
    /\ sentence \in Sentences
    /\ built = NotBuilt
    /\ formatted = NotFormatted
    /\ layer = "Surface"
    /\ lock = "free"
    /\ pc = PcStart
    /\ NotifyStart
    /\ treebank_idx = 0

\* main.rs 96-99: sent.into().
Build ==
    /\ built = NotBuilt
    /\ built' = From(sentence)
    /\ UNCHANGED <<cursor_vars, overflow_checks, sentence, formatted, layer, treebank_idx, notify_vars, lock, pc>>

NextBuild == Build

SpecBuild == InitBuild /\ [][NextBuild]_vars

(* ------------------- the formatters on their own ---------------------- *)

MaxFormatTokens == 2

Features == {None, Some({"mark"})}
FormatRelations == { <<"n", "s", "u", "b", "j">>, <<"o", "\"", "a">> }

\* Sentences the builder accepts: every token has a head inside the sentence
\* (or is a root) and a relation; tokens may carry the "mark" feature.
FormatTokens(n) ==
    { [Token(f, Some(h), Some(r)) EXCEPT !.features = m] :
        f \in Forms, h \in 0..n, r \in FormatRelations, m \in Features }

FormatSentences == UNION { [1..n -> FormatTokens(n)] : n \in 0..MaxFormatTokens }

\* "Cats chase mice": heads 2, 0, 2; relations nsubj, none (the root), dobj.
CatsChaseMice ==
    << Token(<<"C", "a", "t", "s">>, Some(2), Some(<<"n", "s", "u", "b", "j">>)),
       Token(<<"c", "h", "a", "s", "e">>, Some(0), None),
       Token(<<"m", "i", "c", "e">>, Some(2), Some(<<"d", "o", "b", "j">>)) >>

InitFormat ==
    /\ treebank = <<>>
    /\ idx = 0
    /\ callbacks = <<>>
    /\ fired = <<>>
    /\ ran = <<>>
    /\ last = [op |-> "new", idx |-> 0, len |-> 0, graph |-> None, ret |-> Ret("ok", <<>>)]
    /\ faulted = FALSE
    /\ overflow_checks = FALSE
    /\ producer = "running"
    /\ sentence \in FormatSentences \cup {CatsChaseMice}
    /\ built = NotBuilt
    /\ formatted = NotFormatted
    /\ layer = "Surface"
    /\ lock = "free"
    /\ pc = PcStart
    /\ NotifyStart
    /\ treebank_idx = 0

\* graph.rs 58-62: DependencyGraph::dot().
FormatDot ==
    /\ built.status = "ok"
    /\ formatted.dot = None
    /\ formatted' = [formatted EXCEPT !.dot = Some(graph_to_dot(built.graph))]
    /\ UNCHANGED <<cursor_vars, overflow_checks, sentence, built, layer, treebank_idx, notify_vars, lock, pc>>

\* graph.rs 68-72: DependencyGraph::tikz().
FormatTikz ==
    /\ built.status = "ok"
    /\ formatted.tikz = None
    /\ formatted' = [formatted EXCEPT !.tikz = Some(graph_to_tikz(built.graph))]
    /\ UNCHANGED <<cursor_vars, overflow_checks, sentence, built, layer, treebank_idx, notify_vars, lock, pc>>

NextFormat ==
    \/ Build
    \/ FormatDot
    \/ FormatTikz

SpecFormat == InitFormat /\ [][NextFormat]_vars

(* ----------------------- the builder and the layer -------------------- *)

MaxLayerTokens == 2

Layers == {"Surface", "Projective"}

\* Tokens that carry both layers: a head and a projective head inside the
\* sentence (0 = root), each with its relation.
LayerTokens(n) ==
    { [Token(<<"A">>, Some(h), Some(<<"n", "s", "u", "b", "j">>))
          EXCEPT !.phead = Some(ph), !.phead_rel = Some(pr)] :
        h \in 0..n, ph \in 0..n, pr \in Relations }

\* No token is its own head on either layer.
LayerSentences ==
    { s \in UNION { [1..n -> LayerTokens(n)] : n \in 1..MaxLayerTokens } :
        \A i \in 1..Len(s) : Unwrap(s[i].head) # i /\ Unwrap(s[i].phead) # i }

\* main.rs 96-99 with graph.rs 19-52: the one builder there is. The "layer"
\* option (main.rs 67-73) is parsed and never read, and the builder reads
\* head() and head_rel() only.
build(sent, l) == From(sent)

InitLayer ==
    /\ treebank = <<>>
    /\ idx = 0
    /\ callbacks = <<>>
    /\ fired = <<>>
    /\ ran = <<>>
    /\ last = [op |-> "new", idx |-> 0, len |-> 0, graph |-> None, ret |-> Ret("ok", <<>>)]
    /\ faulted = FALSE
    /\ overflow_checks = FALSE
    /\ producer = "running"
    /\ sentence \in LayerSentences
    /\ built = NotBuilt
    /\ formatted = NotFormatted
    /\ layer \in Layers
    /\ lock = "free"
    /\ pc = PcStart
    /\ NotifyStart
    /\ treebank_idx = 0

BuildLayer ==
    /\ built = NotBuilt
    /\ built' = build(sentence, layer)
    /\ UNCHANGED <<cursor_vars, overflow_checks, sentence, formatted, layer, treebank_idx, notify_vars, lock, pc>>

NextLayer == BuildLayer

SpecLayer == InitLayer /\ [][NextLayer]_vars


(* ------------------------------- claims -------------------------------- *)

\* How often callback c ran for an event of category update during the last operation.
RunsOf(c, update) ==
    Cardinality({ kj \in UNION { {k} \X (1..Len(ran[k])) : k \in 1..Len(ran) } :
                    /\ fired[kj[1]] = update
                    /\ ran[kj[1]][kj[2]] = c })

\* How often category update was dispatched during the last operation.
Dispatches(update) == Cardinality({ k \in 1..Len(fired) : fired[k] = update })

\* No callback ran during the last operation.
NoDelivery == \A k \in 1..Len(ran) : ran[k] = <<>>

\* Callback c is reached by events of category update.
Reaches(c, update) == callbacks[c] = update \/ callbacks[c] = "Any"

\* C1: whenever the store is non-empty, the index satisfies 0 <= idx < len,
\* whatever sequence of push, first, next and previous led here.
Thm_C1_IndexInRange == len > 0 => (0 <= idx /\ idx < len)

\* next() was called at the last index of a store of two or more graphs.
Wit_C1_NextAtLastIndex ==
    /\ last.op = "next"
    /\ last.len >= 2
    /\ last.idx = last.len - 1
    /\ ~faulted

\* C2: previous() at idx = 0 is a no-op (idx stays 0, no fault, no callback
\* runs); at idx > 0 it decrements idx by one and fires TreeSelection.
Claim_C2_PreviousContract ==
    (last.op = "previous" /\ last.len > 0) =>
        IF last.idx = 0
        THEN idx = 0 /\ ~faulted /\ NoDelivery
        ELSE idx = last.idx - 1 /\ fired = <<"TreeSelection">>

\* C3: next() at the last valid index is a no-op (idx unchanged, no callback
\* runs); otherwise it increments idx by one and fires TreeSelection.
Claim_C3_NextContract ==
    (last.op = "next" /\ last.len > 0) =>
        IF last.idx = last.len - 1
        THEN idx = last.idx /\ NoDelivery
        ELSE idx = last.idx + 1 /\ fired = <<"TreeSelection">>

Claim_C6_FirstContract ==
    last.op = "first" =>
        IF last.len > 0
        THEN idx = 0 /\ fired = <<"TreeSelection">>
        ELSE idx = last.idx /\ len = 0 /\ NoDelivery

Claim_C8_ReadsTotal ==
    /\ \A i \in len..(len + 2) : get(i) = None
    /\ last.op \in {"graph", "tokens", "dependency_tree_dot", "handle"} =>
           IF last.len > 0
           THEN /\ ~faulted
                /\ last.op = "graph" => last.ret.val = Some(treebank[idx + 1])
                /\ last.op = "tokens" =>
                       last.ret.val = [k \in 1..Len(treebank[idx + 1].nodes) |->
                                          treebank[idx + 1].nodes[k].token.form]
                /\ last.op = "dependency_tree_dot" =>
                       last.ret.val = model_graph_to_dot(treebank[idx + 1])
                /\ last.op = "handle" =>
                       (last.ret.kind = "ok" => last.ret.val = model_graph_to_dot(treebank[idx + 1]))
           ELSE ~faulted /\ last.ret.val = <<>>

\* C9: a built graph has one node per token, node i wrapping token i with
\* offset i, and one edge per token whose head is not 0.
Thm_C9_NodesAndEdgeCount ==
    built.status = "ok" =>
        LET g == built.graph
            n == Len(sentence)
            k == Cardinality({ i \in 1..n : sentence[i].head # Some(0) })
        IN  /\ Len(g.nodes) = n
            /\ \A i \in 1..n : g.nodes[i] = [token |-> sentence[i], offset |-> i - 1]
            /\ Len(g.edges) = k

\* A two-token sentence whose first token depends on the second, the root.
Wit_C9_ForwardHead ==
    /\ built.status = "ok"
    /\ Len(sentence) = 2
    /\ sentence[1].head = Some(2)
    /\ sentence[2].head = Some(0)
    /\ sentence[1].form # sentence[2].form

\* C10: in a built graph every token i with head h # 0 has exactly one
\* incoming edge, from node h - 1 and labelled with the token's relation, and
\* a node has no incoming edge exactly when its token's head is 0.
Thm_C10_IncomingEdges ==
    built.status = "ok" =>
        LET g == built.graph
        IN  \A i \in 1..Len(sentence) :
                LET h == Unwrap(sentence[i].head)
                    incoming == { e \in 1..Len(g.edges) : g.edges[e].target = i - 1 }
                IN  /\ h # 0 =>
                        /\ Cardinality(incoming) = 1
                        /\ \A e \in incoming :
                               /\ g.edges[e].source = h - 1
                               /\ g.edges[e].weight = Unwrap(sentence[i].head_rel)
                    /\ (Cardinality(incoming) = 0) <=> (h = 0)

\* A two-token sentence with a root and a dependent governed by it.
Wit_C10_RootAndDependent ==
    /\ built.status = "ok"
    /\ Len(sentence) = 2
    /\ sentence[1].head = Some(0)
    /\ sentence[2].head = Some(1)
    /\ Len(built.graph.edges) = 1

\* Some token of the sentence has no head value.
MissingHead == \E i \in 1..Len(sentence) : sentence[i].head = None

\* Some token of the sentence has a head other than 0 and no relation.
MissingRelation ==
    \E i \in 1..Len(sentence) :
        /\ sentence[i].head # None
        /\ Unwrap(sentence[i].head) # 0
        /\ sentence[i].head_rel = None

\* Every head that is present names a token of the sentence, or is 0.
HeadsInRange ==
    \A i \in 1..Len(sentence) :
        sentence[i].head # None => Unwrap(sentence[i].head) <= Len(sentence)

\* C11: building fails for a missing head exactly when a head is absent, for
\* a missing relation exactly when a token with head h # 0 has no relation,
\* and succeeds otherwise.  Stated here is the "succeeds otherwise" half: a
\* sentence with every head present and a relation on every token whose head
\* is not 0 is built, so a root without a relation is accepted.
Claim_C11_ErrorClassification ==
    (built.status # "none" /\ HeadsInRange /\ ~MissingHead /\ ~MissingRelation)
        => built.status = "ok"

\* C12: a sentence whose graph cannot be built costs only that sentence: the
\* producer goes on to the sentences after it, and the store and the index
\* are as they were.
Claim_C12_FailureIsPerSentence ==
    (last.op = "build" /\ last.ret.kind = "panic") =>
        /\ producer = "running"
        /\ len = last.len
        /\ idx = last.idx

(* --------------------------- the formatters --------------------------- *)

\* text contains sub as a contiguous substring.
Contains(text, sub) ==
    \E k \in 0..(Len(text) - Len(sub)) : SubSeq(text, k + 1, k + Len(sub)) = sub

\* C13: every output a formatter has produced carries each node form and each
\* relation label in its escaped spelling (every double quote preceded by a
\* backslash), in the DOT text and in the TikZ text alike.
Claim_C13_QuoteEscaping ==
    \A which \in {"dot", "tikz"} :
        formatted[which] # None =>
            /\ \A i \in 1..Len(built.graph.nodes) :
                   Contains(Unwrap(formatted[which]),
                            escape_str(built.graph.nodes[i].token.form))
            /\ \A e \in 1..Len(built.graph.edges) :
                   Contains(Unwrap(formatted[which]),
                            escape_str(built.graph.edges[e].weight))

\* The DOT statement expected for node i (0-based) of g.
NodeStatement(g, i) ==
    <<"n">> \o Display(i) \o <<"[", "l", "a", "b", "e", "l", "=", "\"">>
    \o escape_str(g.nodes[i + 1].token.form)
    \o (IF marked(g.nodes[i + 1].token) THEN MarkedLabelClose ELSE <<"\"", "]", ";", "\n">>)

\* The DOT statement expected for an edge source -> target labelled relation.
EdgeStatement(source, target, relation) ==
    <<"n">> \o Display(source) \o <<" ", "-", ">", " ", "n">> \o Display(target)
    \o <<"[", "l", "a", "b", "e", "l", "=", "\"">> \o escape_str(relation)
    \o <<"\"", "]", ";", "\n">>

\* The header, one node statement per node in index order, the edge
\* attributes, one edge statement per edge in creation order, the closing brace.
DotStructure ==
    formatted.dot # None =>
        LET g == built.graph
        IN Unwrap(formatted.dot) =
               DotDigraph \o DotGraphAttrs \o DotNodeAttrs
               \o Flatten([i \in 1..Len(g.nodes) |-> NodeStatement(g, i - 1)])
               \o DotEdgeAttrs
               \o Flatten([e \in 1..Len(g.edges) |->
                              EdgeStatement(g.edges[e].source, g.edges[e].target,
                                            g.edges[e].weight)])
               \o <<"}">>

\* C14: the DOT text has the node statements in index order before the edge
\* statements in creation order, and "Cats chase mice" (heads 2, 0, 2;
\* relations nsubj, none, dobj) is built and formatted with the statements
\* n1 -> n0[label="nsubj"]; and n1 -> n2[label="dobj"];.
Claim_C14_DotStructure ==
    /\ DotStructure
    /\ (sentence = CatsChaseMice /\ built.status # "none") =>
           /\ built.status = "ok"
           /\ formatted.dot # None =>
                  /\ Contains(Unwrap(formatted.dot),
                              EdgeStatement(1, 0, <<"n", "s", "u", "b", "j">>))
                  /\ Contains(Unwrap(formatted.dot),
                              EdgeStatement(1, 2, <<"d", "o", "b", "j">>))

\* The deptext entry expected for node i (0-based) of g.
DeptextEntry(g, i) ==
    IF marked(g.nodes[i + 1].token)
    THEN <<"\\", "u", "n", "d", "e", "r", "l", "i", "n", "e", "{">>
         \o g.nodes[i + 1].token.form \o <<"}">>
    ELSE g.nodes[i + 1].token.form

\* The edge command expected for edge e (1-based position) of g: 1-based
\* node numbers.
DepedgeCommand(g, e) ==
    <<"\\", "d", "e", "p", "e", "d", "g", "e", "{">>
    \o Display(g.edges[e].source + 1) \o <<"}", "{">>
    \o Display(g.edges[e].target + 1) \o <<"}", "{">>
    \o escape_str(g.edges[e].weight) \o <<"}", "\n">>

\* The TikZ text whose deptext line has the n entries in node-index order
\* joined by separator, followed by the k edge commands in creation order.
TikzWithSeparator(g, separator) ==
    TikzPreamble
    \o Flatten([i \in 1..Len(g.nodes) |->
                   (IF i = 1 THEN <<>> ELSE separator) \o DeptextEntry(g, i - 1)])
    \o <<"\\", "\\", "\n", "\\", "e", "n", "d", "{", "d", "e", "p", "t", "e", "x", "t", "}", "\n">>
    \o Flatten([e \in 1..Len(g.edges) |-> DepedgeCommand(g, e)])
    \o TikzPostamble

LayerHead(token, l) == IF l = "Projective" THEN token.phead ELSE token.head
LayerRel(token, l) == IF l = "Projective" THEN token.phead_rel ELSE token.head_rel

\* C16: the graph built for a layer has, for every token, the edge its head
\* and relation on that layer call for, and no incoming edge for a token that
\* is a root on that layer.
Claim_C16_LayerSelection ==
    built.status = "ok" =>
        \A i \in 1..Len(sentence) :
            LET h == Unwrap(LayerHead(sentence[i], layer))
                incoming == { e \in 1..Len(built.graph.edges) :
                                 built.graph.edges[e].target = i - 1 }
            IN IF h = 0
               THEN incoming = {}
               ELSE /\ Cardinality(incoming) = 1
                    /\ \A e \in incoming :
                           /\ built.graph.edges[e].source = h - 1
                           /\ built.graph.edges[e].weight =
                                  Unwrap(LayerRel(sentence[i], layer))

(* ------------------------------ the exports --------------------------- *)

SaveOps == {"save_dot", "save_tikz"}

SaveError(ret) == ret.val[1]
SavedFile(ret) == ret.val[2]
SavedContent(ret) == ret.val[3]

\* C17: an export asked for while the store is empty ends with the error
\* NoGraphSelected and without a file; the step leaves the store, idx and the
\* registry as they were, and neither thread has ended.
Thm_C17_ExportOnEmptyStore ==
    /\ [](( last.op \in SaveOps /\ last.len = 0) =>
             /\ last.ret.kind = "err"
             /\ SaveError(last.ret) = "NoGraphSelected"
             /\ SavedFile(last.ret) = None
             /\ SavedContent(last.ret) = None)
    /\ [][(last' # last /\ last'.op \in SaveOps /\ last'.len = 0) =>
             /\ UNCHANGED <<treebank, idx, callbacks, producer>>
             /\ ~faulted']_vars

\* An export refused on the empty store, with a subscriber connected and the
\* producer still running.
Wit_C17_RefusedExport ==
    /\ last.op = "save_tikz"
    /\ last.len = 0
    /\ SaveError(last.ret) = "NoGraphSelected"
    /\ callbacks # <<>>
    /\ producer = "running"
    /\ ~faulted

\* C18: an export that succeeded wrote the file s<idx + 1>.dot (or .tikz), and
\* what it wrote is the text of the graph at that idx.
Thm_C18_NameAndContentAgree ==
    (last.op \in SaveOps /\ last.ret.kind = "ok") =>
        /\ idx < Len(treebank)
        /\ last.op = "save_dot" =>
               /\ SavedFile(last.ret) =
                      Some(<<"s">> \o Display(idx + 1) \o <<".", "d", "o", "t">>)
               /\ SavedContent(last.ret) = Some(graph_to_dot(treebank[idx + 1]))
        /\ last.op = "save_tikz" =>
               /\ SavedFile(last.ret) =
                      Some(<<"s">> \o Display(idx + 1) \o <<".", "t", "i", "k", "z">>)
               /\ SavedContent(last.ret) = Some(graph_to_tikz(treebank[idx + 1]))

\* An export of the second graph while a third has already been pushed behind
\* the cursor and the producer is still running.
Wit_C18_ExportWhilePushing ==
    /\ last.op = "save_dot"
    /\ last.ret.kind = "ok"
    /\ idx = 1
    /\ Len(treebank) = 3
    /\ producer = "running"

(* ------------------------------- the lock ------------------------------ *)

\* idx after the operation recorded in last, on a store of the length
\* recorded there.
IdxAfter ==
    CASE last.op = "first" -> IF last.len > 0 THEN 0 ELSE last.idx
      [] last.op = "next" -> IF last.idx + 1 < last.len THEN last.idx + 1 ELSE last.idx
      [] last.op = "previous" -> IF last.idx > 0 THEN last.idx - 1 ELSE last.idx
      [] OTHER -> last.idx

LenAfter == IF last.op = "push" THEN last.len + 1 ELSE last.len

\* C19: a thread that is inside a cursor operation or has not yet let go
\* after it holds the lock, so at most one thread is there; and until it lets
\* go the cursor is as its own operation left it: no other operation has come
\* between.
Thm_C19_MutualExclusion ==
    /\ \A t \in Threads : pc[t].at \in {"locked", "unlock"} => lock = t
    /\ \A t \in Threads :
           pc[t].at = "unlock" =>
               /\ last.op = pc[t].op
               /\ idx = IdxAfter
               /\ len = LenAfter

\* The producer asks for the lock while the event loop is inside next().
Wit_C19_Contention ==
    /\ pc["producer"].at = "want"
    /\ pc["gui"].at = "unlock"
    /\ pc["gui"].op = "next"
    /\ idx = 1
    /\ lock = "gui"

\* No thread asks for the lock while it holds it.
NoReentrantRequest == \A t \in Threads : pc[t].at = "want" => lock # t

\* C20: a thread that has asked for the lock can still be given it: the lock
\* is free or held by the other thread, which is alive and will let go.
Claim_C20_RequestsGranted ==
    \A t \in Threads :
        pc[t].at = "want" =>
            /\ lock # t
            /\ lock # "poisoned"
            /\ ~faulted

(* --------------------------- the notifications ------------------------- *)

\* C21: once a graph has been pushed, the tree and the sentence subscriber
\* are eventually sent the graph at index 0, wherever the first push falls
\* relative to the connections and to first().
Thm_C21_InitialSelectionDelivered ==
    (len > 0) ~> ({"tree", "sentence"} \subseteq delivered)

\* create_gui has just ended on a store that was filled before the header
\* was connected: the only messages are those of first().
Wit_C21_PushBeforeFirst ==
    /\ pc["gui"].op = "first"
    /\ len > 0
    /\ delivered = {"tree", "sentence"}
    /\ Len(chan["tree"]) = 1 /\ idle["tree"] = 1
    /\ Len(chan["sentence"]) = 1 /\ idle["sentence"] = 1
    /\ Len(chan["header"]) = 1 /\ idle["header"] = 1
    /\ label = None

Channels == {"tree", "sentence", "header"}

\* How many of the callbacks run were those of subscriber s.
Runs(s, runs) == Cardinality({ k \in 1..Len(runs) : runs[k] = s })

\* A callback of subscriber s fired now has something to send: the header
\* always, the others when a graph is selected.
HasMessage(s) == s = "header" \/ idx < len

\* The cursor operations of the event-loop thread, callbacks included.
GuiOperation == NotifyFirst \/ NotifyNext \/ NotifyPrevious

\* No channel ever holds fewer messages than it has idle handlers pending.
QueuedCoversPending == \A s \in Channels : Len(chan[s]) >= idle[s]

\* The producer has ended, the main loop is running and idle: every handler
\* has run.
Settled ==
    /\ ~faulted
    /\ pc["producer"].at \in {"done", "panicked"}
    /\ InMainLoop
    /\ \A s \in Channels : idle[s] = 0

\* An idle handler takes the oldest message of its own channel if there is
\* one and nothing else; the header's puts it into the label.
HandlerTakesOldest ==
    \A s \in Channels :
        RunIdle(s) =>
            /\ idle'[s] = idle[s] - 1
            /\ \A o \in Channels \ {s} : chan'[o] = chan[o] /\ idle'[o] = idle[o]
            /\ IF chan[s] = <<>>
               THEN chan'[s] = <<>> /\ label' = label
               ELSE /\ chan'[s] = SubSeq(chan[s], 2, Len(chan[s]))
                    /\ s = "header" =>
                           label' = Some(<<chan[s][1][1] + 1, chan[s][1][2]>>)

Claim_C23_EmptyStoreNavigation ==
    (last.op \in {"widget_next", "widget_previous"} /\ last.len = 0) =>
        /\ ~faulted
        /\ treebank_idx = 0

(* ----------------------- heads outside the sentence -------------------- *)

\* A token of the sentence names a head past the last token.
HeadPastEnd ==
    \E i \in 1..Len(sentence) :
        sentence[i].head # None /\ Unwrap(sentence[i].head) > Len(sentence)

\* C24: building never addresses a node outside the arena: a sentence with a
\* head h > n is rejected or skipped, it does not end the build in an
\* out-of-bounds fault.
Claim_C24_HeadInArena ==
    (built # NotBuilt /\ HeadPastEnd) => built.panic # "index out of bounds"

====
